---- MODULE Spec2Model ----
(***************************************************************************)
(* Model of beesub.py: the synthesis of the signal-distribution graph      *)
(* (Concat -> Relays -> RegEx -> Light), the assignment of component and   *)
(* wire ids, and the regular expression each RegEx component carries.      *)
(*                                                                         *)
(* WIDTH, HEIGHT and the number of Concat outputs are module-level         *)
(* constants of the script (32, 18 and 5).  They are state here, chosen    *)
(* once in Init, so that the properties are checked for every grid and     *)
(* every fan-out up to the bounds below.                                   *)
(***************************************************************************)
EXTENDS Integers, Sequences, FiniteSets, TLC

VARIABLES
    WIDTH,          \* grid width                      (beesub.py:16)
    HEIGHT,         \* grid height                     (beesub.py:17)
    F,              \* number of Concat outputs         (beesub.py:112)
    pc,             \* position of the script
    out_nodes,      \* deque of available output nodes  (beesub.py:253)
    relay,          \* the Relay of the current iteration (its ordinal)
    relays,         \* list of Relays                   (beesub.py:49)
    regexs,         \* list of RegEx components         (beesub.py:50)
    lights,         \* list of Lights                   (beesub.py:51)
    wires,          \* list of Wires                    (beesub.py:52)
    node_wire_id,   \* Node.wire_id of every Node created so far
    x, y,           \* loop variables of the per-cell wiring
    i,              \* loop variable of the id assignment loops
    offset_id,      \* first wire id                    (beesub.py:283)
    regex_comp,     \* template['regex_comp']           (beesub.py:293)
    vid_data,       \* character buffer a RegEx component is applied to
    rule,           \* the pattern of the cell under test
    extracted       \* result of applying rule to vid_data

vars == <<WIDTH, HEIGHT, F, pc, out_nodes, relay, relays, regexs, lights,
          wires, node_wire_id, x, y, i, offset_id, regex_comp,
          vid_data, rule, extracted>>

----------------------------------------------------------------------------
(* Bounds of the model *)

MaxWidth == 5
MaxHeight == 4
MaxFanout == 6
MaxFrameWidth == 2
MaxFrameHeight == 2
MaxTail == 16

(* Constants of the script *)

COMPONENT_ID_OFFSET == 62
RelayFanout == 5
BlockSize == 8
OutSize == 7
None == -1

----------------------------------------------------------------------------
(* Node, Wire and the components *)

Node(comp, name, k) == [comp |-> comp, name |-> name, k |-> k]

Wire(node_start, node_end) ==
    [node_start |-> node_start, node_end |-> node_end, id |-> None]

ConcatComp == <<"concat", 0>>
RelayComp(n) == <<"relay", n>>
RegExComp(n) == <<"regex", n>>
LightComp(n) == <<"light", n>>

Concat_signal_out(f) == [k \in 1..f |-> Node(ConcatComp, "signal_out", k)]

Relay_signal_in1(n) == Node(RelayComp(n), "signal_in1", 1)
Relay_signal_in2(n) == Node(RelayComp(n), "signal_in2", 1)
Relay_signal_out1(n) ==
    [k \in 1..RelayFanout |-> Node(RelayComp(n), "signal_out1", k)]
Relay_signal_out2(n) ==
    [k \in 1..RelayFanout |-> Node(RelayComp(n), "signal_out2", k)]

RelayNodes(n) ==
    {Relay_signal_in1(n), Relay_signal_in2(n)}
        \cup {Relay_signal_out1(n)[k] : k \in 1..RelayFanout}
        \cup {Relay_signal_out2(n)[k] : k \in 1..RelayFanout}

RegEx_signal_in(n) == Node(RegExComp(n), "signal_in", 1)
RegEx_signal_out(n) == Node(RegExComp(n), "signal_out", 1)
Light_set_color(n) == Node(LightComp(n), "set_color", 1)

NewNodes(S) == [p \in S |-> None]

FRAME_SIZE == WIDTH * HEIGHT

----------------------------------------------------------------------------
(* collections.deque *)

(* Variants of popleft: one takes the newest node, one leaves the node
   in the deque. *)
popleft_right(q) == [node |-> q[Len(q)], rest |-> SubSeq(q, 1, Len(q) - 1)]
popleft_keep(q) == [node |-> Head(q), rest |-> q]

(* popleft: the node taken and the deque left *)
popleft(q) == [node |-> Head(q), rest |-> Tail(q)]
extend(q, nodes) == q \o nodes

(* Variants of the test: one stops a node early, one a node late *)
short_early(q, cells) == Len(q) < cells - 1
short_late(q, cells) == Len(q) <= cells

(* The test of the builder loop and of its inner if: beesub.py:255, 259 *)
short(q, cells) == Len(q) < cells

----------------------------------------------------------------------------
(* RegEx.pattern: the regular expression as the sequence of its parts.     *)
(*   bol      ^                                                            *)
(*   skip n   (?:.{n})                                                     *)
(*   px       (?<px>.)                                                     *)
(*   lazy n   (?:.{n})*?                                                   *)
(*   backref  \k<px>                                                       *)
(*   out n    (?<out>.{n})                                                 *)

Part(op, n) == [op |-> op, n |-> n]

(* Variant: rows counted by the height *)
px_offset_by_height(cx, cy, w, h) == cx + cy * h

px_offset(cx, cy, w, h) == cx + cy * w

(* Variant: the pixel's own character counted again *)
lib_offset_with_px(cx, cy, w, h) == w * h - cx - cy * w

lib_offset(cx, cy, w, h) == w * h - px_offset(cx, cy, w, h) - 1

pattern(cx, cy, w, h) ==
    <<Part("bol", 0)>>
    \o (IF px_offset(cx, cy, w, h) = 0
        THEN <<>>
        ELSE <<Part("skip", px_offset(cx, cy, w, h))>>)
    \o <<Part("px", 1)>>
    \o (IF lib_offset(cx, cy, w, h) = 0
        THEN <<>>
        ELSE <<Part("skip", lib_offset(cx, cy, w, h))>>)
    \o <<Part("lazy", BlockSize), Part("backref", 1), Part("out", OutSize)>>

----------------------------------------------------------------------------
(* The script, from "Generating components and wiring" on *)

Init ==
    /\ WIDTH \in 1..MaxWidth
    /\ HEIGHT \in 1..MaxHeight
    /\ F \in 0..MaxFanout
    /\ pc = "loop"
    /\ out_nodes = Concat_signal_out(F)
    /\ relay = 0
    /\ relays = <<>>
    /\ regexs = <<>>
    /\ lights = <<>>
    /\ wires = <<>>
    /\ node_wire_id = NewNodes({Concat_signal_out(F)[k] : k \in 1..F})
    /\ x = 0
    /\ y = 0
    /\ i = 0
    /\ offset_id = None
    /\ regex_comp = <<>>
    /\ vid_data = <<>>
    /\ rule = <<>>
    /\ extracted = <<>>

(* beesub.py:255-258: a new Relay, its first input wired to the next
   available node, its first group of outputs made available. *)
NewRelay ==
    /\ pc = "loop"
    /\ short(out_nodes, FRAME_SIZE)
    /\ LET n == Len(relays) + 1 IN
        /\ relay' = n
        /\ node_wire_id' = node_wire_id @@ NewNodes(RelayNodes(n))
        /\ IF out_nodes = <<>>
           THEN /\ pc' = "error"
                /\ UNCHANGED <<out_nodes, wires>>
           ELSE /\ wires' = Append(wires,
                        Wire(popleft(out_nodes).node, Relay_signal_in1(n)))
                /\ out_nodes' =
                        extend(popleft(out_nodes).rest, Relay_signal_out1(n))
                /\ pc' = "branch"
    /\ UNCHANGED <<WIDTH, HEIGHT, F, relays, regexs, lights, x, y, i,
                   offset_id, regex_comp, vid_data, rule, extracted>>

(* Variant of SecondInput: the second group of outputs is made available
   whether or not the second input was wired. *)
SecondInput_always ==
    /\ pc = "branch"
    /\ IF short(out_nodes, FRAME_SIZE)
       THEN /\ out_nodes # <<>>
            /\ wires' = Append(wires,
                    Wire(popleft(out_nodes).node, Relay_signal_in2(relay)))
            /\ out_nodes' = extend(popleft(out_nodes).rest,
                                   Relay_signal_out2(relay))
       ELSE /\ out_nodes' = extend(out_nodes, Relay_signal_out2(relay))
            /\ UNCHANGED wires
    /\ relays' = Append(relays, [n |-> relay, id |-> None])
    /\ pc' = "loop"
    /\ UNCHANGED <<WIDTH, HEIGHT, F, relay, regexs, lights, node_wire_id,
                   x, y, i, offset_id, regex_comp, vid_data, rule, extracted>>

(* Variant of SecondInput: the second input is never wired *)
SecondInput_never ==
    /\ pc = "branch"
    /\ relays' = Append(relays, [n |-> relay, id |-> None])
    /\ pc' = "loop"
    /\ UNCHANGED <<WIDTH, HEIGHT, F, out_nodes, wires, relay, regexs, lights,
                   node_wire_id, x, y, i, offset_id, regex_comp,
                   vid_data, rule, extracted>>

(* beesub.py:259-262: the second input and the second group of outputs,
   only while the deque is still short; then the Relay joins relays. *)
SecondInput ==
    /\ pc = "branch"
    /\ IF short(out_nodes, FRAME_SIZE)
       THEN IF out_nodes = <<>>
            THEN /\ pc' = "error"
                 /\ UNCHANGED <<out_nodes, wires, relays>>
            ELSE /\ wires' = Append(wires,
                         Wire(popleft(out_nodes).node,
                              Relay_signal_in2(relay)))
                 /\ out_nodes' = extend(popleft(out_nodes).rest,
                                        Relay_signal_out2(relay))
                 /\ relays' = Append(relays, [n |-> relay, id |-> None])
                 /\ pc' = "loop"
       ELSE /\ relays' = Append(relays, [n |-> relay, id |-> None])
            /\ pc' = "loop"
            /\ UNCHANGED <<out_nodes, wires>>
    /\ UNCHANGED <<WIDTH, HEIGHT, F, relay, regexs, lights, node_wire_id,
                   x, y, i, offset_id, regex_comp, vid_data, rule, extracted>>

(* beesub.py:255: the builder loop ends *)
BuilderDone ==
    /\ pc = "loop"
    /\ ~short(out_nodes, FRAME_SIZE)
    /\ pc' = "cells"
    /\ x' = 0
    /\ y' = 0
    /\ UNCHANGED <<WIDTH, HEIGHT, F, out_nodes, relay, relays, regexs, lights,
                   wires, node_wire_id, i, offset_id, regex_comp,
                   vid_data, rule, extracted>>

(* beesub.py:264-271: one cell: a RegEx and a Light, the next available
   node wired to the RegEx, the RegEx wired to the Light. *)
WireCell ==
    /\ pc = "cells"
    /\ y < HEIGHT
    /\ LET n == Len(regexs) + 1 IN
        /\ node_wire_id' = node_wire_id @@
               NewNodes({RegEx_signal_in(n), RegEx_signal_out(n),
                         Light_set_color(n)})
        /\ IF out_nodes = <<>>
           THEN /\ pc' = "error"
                /\ UNCHANGED <<out_nodes, wires, regexs, lights, x, y>>
           ELSE /\ wires' = wires
                        \o <<Wire(popleft(out_nodes).node, RegEx_signal_in(n)),
                             Wire(RegEx_signal_out(n), Light_set_color(n))>>
                /\ out_nodes' = popleft(out_nodes).rest
                /\ regexs' = Append(regexs,
                        [n |-> n, x |-> x, y |-> y, id |-> None])
                /\ lights' = Append(lights,
                        [n |-> n, x |-> x, y |-> y, id |-> None])
                /\ IF x + 1 < WIDTH
                   THEN x' = x + 1 /\ y' = y
                   ELSE x' = 0 /\ y' = y + 1
                /\ pc' = "cells"
    /\ UNCHANGED <<WIDTH, HEIGHT, F, relay, relays, i, offset_id, regex_comp,
                   vid_data, rule, extracted>>

(* beesub.py:264: the per-cell loops end *)
CellsDone ==
    /\ pc = "cells"
    /\ y >= HEIGHT
    /\ pc' = "ids_relays"
    /\ i' = 0
    /\ UNCHANGED <<WIDTH, HEIGHT, F, out_nodes, relay, relays, regexs, lights,
                   wires, node_wire_id, x, y, offset_id, regex_comp,
                   vid_data, rule, extracted>>

----------------------------------------------------------------------------
(* The id assignment loops, beesub.py:274-287 *)

(* Variant: the RegEx ids start at the offset again *)
regex_id_from_offset(k) == COMPONENT_ID_OFFSET + k

relay_id(k) == COMPONENT_ID_OFFSET + k
regex_id(k) == COMPONENT_ID_OFFSET + Len(relays) + k
light_id(k) == COMPONENT_ID_OFFSET + Len(relays) + Len(regexs) + k
first_wire_id ==
    COMPONENT_ID_OFFSET + Len(relays) + Len(regexs) + Len(lights)
wire_id(k) == offset_id + k

(* beesub.py:274-275 *)
AssignRelay ==
    /\ pc = "ids_relays"
    /\ i < Len(relays)
    /\ relays' = [relays EXCEPT ![i + 1].id = relay_id(i)]
    /\ i' = i + 1
    /\ UNCHANGED <<WIDTH, HEIGHT, F, pc, out_nodes, relay, regexs, lights,
                   wires, node_wire_id, x, y, offset_id, regex_comp,
                   vid_data, rule, extracted>>

RelaysAssigned ==
    /\ pc = "ids_relays"
    /\ i >= Len(relays)
    /\ pc' = "ids_regexs"
    /\ i' = 0
    /\ UNCHANGED <<WIDTH, HEIGHT, F, out_nodes, relay, relays, regexs, lights,
                   wires, node_wire_id, x, y, offset_id, regex_comp,
                   vid_data, rule, extracted>>

(* beesub.py:277-278 *)
AssignRegex ==
    /\ pc = "ids_regexs"
    /\ i < Len(regexs)
    /\ regexs' = [regexs EXCEPT ![i + 1].id = regex_id(i)]
    /\ i' = i + 1
    /\ UNCHANGED <<WIDTH, HEIGHT, F, pc, out_nodes, relay, relays, lights,
                   wires, node_wire_id, x, y, offset_id, regex_comp,
                   vid_data, rule, extracted>>

RegexsAssigned ==
    /\ pc = "ids_regexs"
    /\ i >= Len(regexs)
    /\ pc' = "ids_lights"
    /\ i' = 0
    /\ UNCHANGED <<WIDTH, HEIGHT, F, out_nodes, relay, relays, regexs, lights,
                   wires, node_wire_id, x, y, offset_id, regex_comp,
                   vid_data, rule, extracted>>

(* beesub.py:280-281 *)
AssignLight ==
    /\ pc = "ids_lights"
    /\ i < Len(lights)
    /\ lights' = [lights EXCEPT ![i + 1].id = light_id(i)]
    /\ i' = i + 1
    /\ UNCHANGED <<WIDTH, HEIGHT, F, pc, out_nodes, relay, relays, regexs,
                   wires, node_wire_id, x, y, offset_id, regex_comp,
                   vid_data, rule, extracted>>

(* beesub.py:283 *)
LightsAssigned ==
    /\ pc = "ids_lights"
    /\ i >= Len(lights)
    /\ offset_id' = first_wire_id
    /\ pc' = "ids_wires"
    /\ i' = 0
    /\ UNCHANGED <<WIDTH, HEIGHT, F, out_nodes, relay, relays, regexs, lights,
                   wires, node_wire_id, x, y, regex_comp,
                   vid_data, rule, extracted>>

(* beesub.py:284-287 *)
AssignWire ==
    /\ pc = "ids_wires"
    /\ i < Len(wires)
    /\ wires' = [wires EXCEPT ![i + 1].id = wire_id(i)]
    /\ node_wire_id' =
           [node_wire_id EXCEPT ![wires[i + 1].node_start] = wire_id(i),
                                ![wires[i + 1].node_end] = wire_id(i)]
    /\ i' = i + 1
    /\ UNCHANGED <<WIDTH, HEIGHT, F, pc, out_nodes, relay, relays, regexs,
                   lights, x, y, offset_id, regex_comp,
                   vid_data, rule, extracted>>

WiresAssigned ==
    /\ pc = "ids_wires"
    /\ i >= Len(wires)
    /\ pc' = "render"
    /\ UNCHANGED <<WIDTH, HEIGHT, F, out_nodes, relay, relays, regexs, lights,
                   wires, node_wire_id, x, y, i, offset_id, regex_comp,
                   vid_data, rule, extracted>>

(* RegEx.template for every RegEx, beesub.py:293 and 162-167 *)
RegEx_template(r) ==
    [id |-> r.id,
     in |-> node_wire_id[RegEx_signal_in(r.n)],
     out |-> node_wire_id[RegEx_signal_out(r.n)],
     pattern |-> pattern(r.x, r.y, WIDTH, HEIGHT)]

Render ==
    /\ pc = "render"
    /\ regex_comp' = [k \in 1..Len(regexs) |-> RegEx_template(regexs[k])]
    /\ pc' = "done"
    /\ UNCHANGED <<WIDTH, HEIGHT, F, out_nodes, relay, relays, regexs, lights,
                   wires, node_wire_id, x, y, i, offset_id,
                   vid_data, rule, extracted>>

Next ==
    \/ NewRelay
    \/ SecondInput
    \/ BuilderDone
    \/ WireCell
    \/ CellsDone
    \/ AssignRelay
    \/ RelaysAssigned
    \/ AssignRegex
    \/ RegexsAssigned
    \/ AssignLight
    \/ LightsAssigned
    \/ AssignWire
    \/ WiresAssigned
    \/ Render

Spec == Init /\ [][Next]_vars

(* The script is one sequential run: it takes its next step while it has one *)
FairSpec == Spec /\ WF_vars(Next)

----------------------------------------------------------------------------
(* Applying a RegEx component's pattern to the character buffer.  The      *)
(* matching is done by the game's regular expression engine; Match gives   *)
(* the meaning of the constructs RegEx.pattern writes: the parts are       *)
(* matched left to right from the start of the buffer, "." takes any one   *)
(* character (the alphabet holds no line break), the lazy group tries to   *)
(* go on with the rest of the pattern before it takes one more block.      *)

NoMatch == [ok |-> FALSE, out |-> <<>>]

RECURSIVE MatchFrom(_, _, _, _, _)
MatchFrom(parts, t, pos, px, buf) ==
    IF t > Len(parts)
    THEN [ok |-> TRUE, out |-> <<>>]
    ELSE LET part == parts[t] IN
         CASE part.op = "bol" ->
                IF pos = 0
                THEN MatchFrom(parts, t + 1, pos, px, buf)
                ELSE NoMatch
           [] part.op = "skip" ->
                IF pos + part.n <= Len(buf)
                THEN MatchFrom(parts, t + 1, pos + part.n, px, buf)
                ELSE NoMatch
           [] part.op = "px" ->
                IF pos + 1 <= Len(buf)
                THEN MatchFrom(parts, t + 1, pos + 1, <<buf[pos + 1]>>, buf)
                ELSE NoMatch
           [] part.op = "lazy" ->
                LET rest == MatchFrom(parts, t + 1, pos, px, buf) IN
                IF rest.ok
                THEN rest
                ELSE IF pos + part.n <= Len(buf)
                     THEN MatchFrom(parts, t, pos + part.n, px, buf)
                     ELSE NoMatch
           [] part.op = "backref" ->
                IF px # <<>> /\ pos + 1 <= Len(buf) /\ <<buf[pos + 1]>> = px
                THEN MatchFrom(parts, t + 1, pos + 1, px, buf)
                ELSE NoMatch
           [] part.op = "out" ->
                IF pos + part.n <= Len(buf)
                THEN LET rest == MatchFrom(parts, t + 1, pos + part.n, px, buf)
                     IN IF rest.ok
                        THEN [ok |-> TRUE,
                              out |-> SubSeq(buf, pos + 1, pos + part.n)]
                        ELSE NoMatch
                ELSE NoMatch

Match(parts, buf) == MatchFrom(parts, 1, 0, <<>>, buf)

(* Buffers: a frame followed by up to MaxTail more characters; "b"
   everywhere but at up to two marked places, which hold "a". *)
Marked(len, S) == [k \in 1..len |-> IF k \in S THEN "a" ELSE "b"]

Buffers(frame) ==
    UNION {{Marked(frame + n, {m1, m2} \cap (1..(frame + n))) :
                m1 \in 0..(frame + n), m2 \in 0..(frame + n)} :
           n \in 0..MaxTail}

MatchInit ==
    /\ WIDTH \in 1..MaxFrameWidth
    /\ HEIGHT \in 1..MaxFrameHeight
    /\ F = 0
    /\ pc = "synth"
    /\ out_nodes = <<>>
    /\ relay = 0
    /\ relays = <<>>
    /\ regexs = <<>>
    /\ lights = <<>>
    /\ wires = <<>>
    /\ node_wire_id = <<>>
    /\ x = 0
    /\ y = 0
    /\ i = 0
    /\ offset_id = None
    /\ regex_comp = <<>>
    /\ vid_data \in Buffers(WIDTH * HEIGHT)
    /\ rule = <<>>
    /\ extracted = NoMatch

(* RegEx.pattern for one cell of the grid, beesub.py:153-160 *)
Synthesize(cx, cy) ==
    /\ pc = "synth"
    /\ x' = cx
    /\ y' = cy
    /\ rule' = pattern(cx, cy, WIDTH, HEIGHT)
    /\ pc' = "apply"
    /\ UNCHANGED <<WIDTH, HEIGHT, F, out_nodes, relay, relays, regexs, lights,
                   wires, node_wire_id, i, offset_id, regex_comp,
                   vid_data, extracted>>

(* The cell's RegEx component receives the buffer *)
Apply ==
    /\ pc = "apply"
    /\ extracted' = Match(rule, vid_data)
    /\ pc' = "applied"
    /\ UNCHANGED <<WIDTH, HEIGHT, F, out_nodes, relay, relays, regexs, lights,
                   wires, node_wire_id, x, y, i, offset_id, regex_comp,
                   vid_data, rule>>

MatchNext ==
    \/ \E cx \in 0..(WIDTH - 1), cy \in 0..(HEIGHT - 1) : Synthesize(cx, cy)
    \/ Apply

MatchSpec == MatchInit /\ [][MatchNext]_vars

----------------------------------------------------------------------------
(* Properties *)

Range(q) == {q[k] : k \in 1..Len(q)}

WireStarts == {wires[k].node_start : k \in 1..Len(wires)}
WireEnds == {wires[k].node_end : k \in 1..Len(wires)}

Building == pc \in {"loop", "branch"}
Built == pc \notin {"loop", "branch", "error"}
Assigned == pc \in {"render", "done"}

In2Wired(n) == Relay_signal_in2(n) \in WireEnds
In1Wired(n) == Relay_signal_in1(n) \in WireEnds

(* C1: for every grid and every fan-out F >= 2 the builder loop ends, no
   node is ever taken from an empty deque, and the deque the loop leaves
   holds a node for every cell: while the cells are wired it holds at
   least as many nodes as there are cells still to wire. *)
C1_BuilderYieldsEnoughNodes ==
    /\ [](F >= 2 => pc # "error")
    /\ [](F >= 2 /\ pc = "cells"
            => Len(out_nodes) >= FRAME_SIZE - Len(regexs))
    /\ <>(F < 2 \/ pc = "cells")

C1_Witness ==
    /\ F >= 2
    /\ pc = "cells"
    /\ Len(relays) >= 2
    /\ Len(regexs) = FRAME_SIZE
    /\ y = HEIGHT

(* The least n with have + gain * n >= cells *)
MinSplitters(have, gain, cells) ==
    CHOOSE n \in 0..cells :
        /\ have + gain * n >= cells
        /\ \A m \in 0..(n - 1) : have + gain * m < cells

(* C2 as stated: the number of Relays is the least n with
   F + (RelayFanout - 2) * n >= WIDTH * HEIGHT. *)
C2_AsStated ==
    F >= 2 /\ Built
        => Len(relays) = MinSplitters(F, RelayFanout - 2, FRAME_SIZE)

(* C2, amended: the number of Relays is the least n with
   F + (2 * RelayFanout - 2) * n >= WIDTH * HEIGHT (a Relay with both
   inputs wired takes two nodes and gives 2 * RelayFanout); none when
   WIDTH * HEIGHT <= F. *)
C2_SplitterCount ==
    F >= 2 /\ Built
        => /\ Len(relays) = MinSplitters(F, 2 * RelayFanout - 2, FRAME_SIZE)
           /\ (FRAME_SIZE <= F => Len(relays) = 0)

C2_Witness ==
    /\ F >= 2
    /\ pc = "cells"
    /\ Len(relays) >= 2
    /\ ~In2Wired(Len(relays))

(* C3: for F >= 2 no Wire ever joins two nodes of one component, and
   once the ids are assigned both nodes of every Wire carry the Wire's
   id. *)
C3_WiresJoinDistinctComponents ==
    F >= 2 =>
        \A k \in 1..Len(wires) :
            /\ wires[k].node_start.comp # wires[k].node_end.comp
            /\ Assigned =>
                /\ wires[k].id # None
                /\ node_wire_id[wires[k].node_start] = wires[k].id
                /\ node_wire_id[wires[k].node_end] = wires[k].id

C3_Witness ==
    /\ F = 2
    /\ pc = "done"
    /\ \E n \in 1..Len(relays) : In2Wired(n)

(* The ids in the order Relays, RegExs, Lights, Wires *)
Ids ==
    [k \in 1..Len(relays) |-> relays[k].id]
    \o [k \in 1..Len(regexs) |-> regexs[k].id]
    \o [k \in 1..Len(lights) |-> lights[k].id]
    \o [k \in 1..Len(wires) |-> wires[k].id]

KeptOnceSet(q, qn) ==
    \A k \in 1..Len(q) : q[k].id # None => Len(qn) >= k /\ qn[k].id = q[k].id

(* C4: every id is None until the graph is built; once assigned, the ids
   of the Relays, then the RegExs, then the Lights, then the Wires are
   COMPONENT_ID_OFFSET, COMPONENT_ID_OFFSET + 1, ... without a gap; an id
   that is set is never written again with another value, nor is a
   node's wire id. *)
C4_IdsSequential ==
    /\ [](pc \in {"loop", "branch", "cells"} =>
            /\ \A k \in 1..Len(Ids) : Ids[k] = None
            /\ \A p \in DOMAIN node_wire_id : node_wire_id[p] = None)
    /\ [](Assigned =>
            \A k \in 1..Len(Ids) : Ids[k] = COMPONENT_ID_OFFSET + k - 1)
    /\ [][/\ KeptOnceSet(relays, relays')
          /\ KeptOnceSet(regexs, regexs')
          /\ KeptOnceSet(lights, lights')
          /\ KeptOnceSet(wires, wires')
          /\ \A p \in DOMAIN node_wire_id :
                node_wire_id[p] # None => node_wire_id'[p] = node_wire_id[p]
         ]_vars

C4_Witness ==
    /\ pc = "done"
    /\ Len(relays) >= 2
    /\ Len(regexs) >= 2
    /\ wires[Len(wires)].id =
           COMPONENT_ID_OFFSET + Len(relays) + 2 * Len(regexs)
               + Len(wires) - 1

(* C5: a node is an end of at most one Wire.  A node of the deque is
   there once and is not yet an end of a Wire (so no node is taken from
   the deque twice, nor put on it again after it was taken), no two
   Wires share a node, and no Wire starts and ends at one node. *)
C5_NodeOnAtMostOneWire ==
    /\ \A k, m \in 1..Len(out_nodes) : out_nodes[k] = out_nodes[m] => k = m
    /\ Range(out_nodes) \cap (WireStarts \cup WireEnds) = {}
    /\ \A k \in 1..Len(wires) : wires[k].node_start # wires[k].node_end
    /\ \A k, m \in 1..Len(wires) :
            k # m =>
                {wires[k].node_start, wires[k].node_end}
                    \cap {wires[m].node_start, wires[m].node_end} = {}

C5_Witness ==
    /\ pc = "done"
    /\ Len(relays) >= 2
    /\ out_nodes # <<>>
    /\ \E n \in 1..Len(relays) : In2Wired(n)

(* Made available: on the deque now, or taken from it (the node taken
   from the deque starts a Wire in the same step). *)
MadeAvailable(p) == p \in Range(out_nodes) \cup WireStarts

Out1(n) == Range(Relay_signal_out1(n))
Out2(n) == Range(Relay_signal_out2(n))

(* C6 as stated: every output node of every Relay of relays is made
   available, whether or not both inputs of the Relay were wired. *)
C6_AsStated ==
    \A n \in 1..Len(relays) : \A p \in Out1(n) \cup Out2(n) : MadeAvailable(p)

(* C6, amended: the signal_out1 nodes of every Relay are made available
   as soon as its first input is wired; its signal_out2 nodes are made
   available when its second input was wired and none of them is
   otherwise. *)
C6_OutputsFollowInputs ==
    /\ pc = "branch" => \A p \in Out1(relay) : MadeAvailable(p)
    /\ \A n \in 1..Len(relays) :
        /\ \A p \in Out1(n) : MadeAvailable(p)
        /\ In2Wired(n) => \A p \in Out2(n) : MadeAvailable(p)
        /\ ~In2Wired(n) => \A p \in Out2(n) : ~MadeAvailable(p)

C6_Witness ==
    /\ pc = "cells"
    /\ Len(relays) >= 2
    /\ In2Wired(1)
    /\ ~In2Wired(Len(relays))

(* The input node of the Relay that drives output node p *)
InputOf(p) ==
    IF p.name = "signal_out1"
    THEN Relay_signal_in1(p.comp[2])
    ELSE Relay_signal_in2(p.comp[2])

(* The node at the other end of the Wire that ends in node p *)
Feeder(p) ==
    wires[CHOOSE k \in 1..Len(wires) : wires[k].node_end = p].node_start

(* Output node p is driven by the Concat through Wires only; steps bounds
   the number of Relays on the way. *)
RECURSIVE Driven(_, _)
Driven(p, steps) ==
    \/ p.comp = ConcatComp
    \/ /\ p.comp[1] = "relay"
       /\ steps > 0
       /\ InputOf(p) \in WireEnds
       /\ Driven(Feeder(InputOf(p)), steps - 1)

(* C9: every node made available is an output of the Concat or an output
   of a Relay whose input of the same branch is wired, and the input of
   every RegEx is driven by the Concat through Wires only. *)
C9_NoIdleBranchUsed ==
    /\ \A p \in Range(out_nodes) :
            \/ p.comp = ConcatComp
            \/ p.comp[1] = "relay" /\ InputOf(p) \in WireEnds
    /\ \A k \in 1..Len(wires) :
            wires[k].node_end.comp[1] \in {"relay", "regex"}
                => Driven(wires[k].node_start, Len(relays) + 1)
    /\ Built => \A n \in 1..Len(regexs) : RegEx_signal_in(n) \in WireEnds

C9_Witness ==
    /\ pc = "done"
    /\ Len(relays) >= 2
    /\ ~In2Wired(Len(relays))
    /\ \E k \in 1..Len(wires) :
            /\ wires[k].node_end.comp[1] = "regex"
            /\ wires[k].node_start.comp = RelayComp(Len(relays))

(* C10: when the builder loop has ended every Relay has its first input
   wired, and only the Relay created last can have its second input
   unwired. *)
C10_OnlyLastRelayHalfWired ==
    Built =>
        \A n \in 1..Len(relays) :
            /\ In1Wired(n)
            /\ ~In2Wired(n) => n = Len(relays)

C10_Witness ==
    /\ pc = "cells"
    /\ Len(relays) >= 3
    /\ ~In2Wired(Len(relays))

(* The place of the one part of a pattern with the given op *)
PlaceOf(parts, op) == CHOOSE t \in 1..Len(parts) : parts[t].op = op

(* The parts of a pattern before its px part (after ^), and between its
   px part and its lazy part *)
Leading(parts) == SubSeq(parts, 2, PlaceOf(parts, "px") - 1)
Trailing(parts) ==
    SubSeq(parts, PlaceOf(parts, "px") + 1, PlaceOf(parts, "lazy") - 1)

SkipGroup(n) == IF n = 0 THEN <<>> ELSE <<Part("skip", n)>>

(* C7: the RegEx components cover the grid in row-major order, and the
   pattern of the cell (x, y) skips offset = x + y * WIDTH characters
   before its px group and tail = WIDTH * HEIGHT - offset - 1 after it,
   with no skip group at all where the number is 0; offset + 1 + tail is
   WIDTH * HEIGHT. *)
C7_PatternOffsets ==
    pc = "done" =>
        /\ Len(regex_comp) = FRAME_SIZE
        /\ \A k \in 1..Len(regex_comp) :
            LET cx == (k - 1) % WIDTH
                cy == (k - 1) \div WIDTH
                offset == cx + cy * WIDTH
                tail == WIDTH * HEIGHT - offset - 1
                parts == regex_comp[k].pattern
            IN /\ regexs[k].x = cx /\ regexs[k].y = cy
               /\ parts[1].op = "bol"
               /\ Leading(parts) = SkipGroup(offset)
               /\ Trailing(parts) = SkipGroup(tail)
               /\ (Leading(parts) = <<>>) <=> (offset = 0)
               /\ (Trailing(parts) = <<>>) <=> (tail = 0)
               /\ offset + 1 + tail = FRAME_SIZE
               /\ SubSeq(parts, PlaceOf(parts, "lazy"), Len(parts))
                    = <<Part("lazy", BlockSize), Part("backref", 1),
                        Part("out", OutSize)>>

C7_Witness ==
    /\ pc = "done"
    /\ WIDTH = 3
    /\ HEIGHT = 2
    /\ Leading(regex_comp[1].pattern) = <<>>
    /\ Leading(regex_comp[5].pattern) = <<Part("skip", 4)>>
    /\ Trailing(regex_comp[5].pattern) = <<Part("skip", 1)>>
    /\ Trailing(regex_comp[6].pattern) = <<>>

(* The block counts at which the anchor of cell (cx, cy) recurs in buf
   with OutSize more characters after it *)
Recurrences(cx, cy, buf) ==
    {k \in 0..Len(buf) :
        /\ FRAME_SIZE + BlockSize * k + 1 + OutSize <= Len(buf)
        /\ buf[FRAME_SIZE + BlockSize * k + 1] = buf[cx + cy * WIDTH + 1]}

FirstRecurrence(cx, cy, buf) ==
    CHOOSE k \in Recurrences(cx, cy, buf) :
        \A m \in Recurrences(cx, cy, buf) : k <= m

(* C8: on a buffer that starts with a frame the pattern of cell (x, y)
   extracts the OutSize characters after the first place
   WIDTH * HEIGHT + BlockSize * k (k = 0, 1, ...) that holds the character
   of the cell's own place x + y * WIDTH of the frame; with no such place
   it does not match. *)
C8_ExtractsAfterFirstRecurrence ==
    pc = "applied" =>
        IF Recurrences(x, y, vid_data) = {}
        THEN ~extracted.ok
        ELSE /\ extracted.ok
             /\ extracted.out =
                    SubSeq(vid_data,
                        FRAME_SIZE + BlockSize * FirstRecurrence(x, y, vid_data)
                            + 2,
                        FRAME_SIZE + BlockSize * FirstRecurrence(x, y, vid_data)
                            + 1 + OutSize)

C8_Witness ==
    /\ pc = "applied"
    /\ x + y * WIDTH > 0
    /\ extracted.ok
    /\ FirstRecurrence(x, y, vid_data) = 1
    /\ "a" \in Range(extracted.out)

C8_NoMatchWitness ==
    /\ pc = "applied"
    /\ ~extracted.ok
    /\ Len(vid_data) >= FRAME_SIZE + BlockSize + OutSize + 1

====
